---- MODULE Spec2Model ----
(***************************************************************************)
(* Web3Wallet: the wallet session component (connect, auto-reconnect,      *)
(* provider events, network switch, balance refresh, send, status          *)
(* auto-clear), with libs/network.js (switchOrAddChain, getChainName) and  *)
(* libs/storage.js (saveSession, loadSession, clearSession).               *)
(*                                                                         *)
(* Every handler body between two awaits is one atomic step (the browser   *)
(* event loop runs each callback to completion).  State updates made in    *)
(* one step are committed together (React 18 batching); effects are        *)
(* re-run right after the commit, before the next callback.  The provider  *)
(* is an arbitrary EIP-1193 provider: it answers each pending request with *)
(* any result or rejection and pushes events at any time.  localStorage    *)
(* calls are modelled as succeeding.  The user reaches an operation only   *)
(* through the element that is rendered for it: the Connect button while   *)
(* account is empty, the wallet card (Refresh, network select, send form)  *)
(* while it is not.                                                        *)
(***************************************************************************)
EXTENDS Integers, Sequences, FiniteSets, TLC

\* ---------------------------------------------------------------- bounds
\* User-initiated calls (connect, refresh, switch, send) per run.
MaxOps == 2
\* Provider-initiated changes (account or chain changed in the wallet) per run.
MaxExt == 1

\* ------------------------------------------------------ program constants
\* setTimeout(() => setStatus(""), 7000), in seconds.
StatusTimeoutSec == 7
\* err?.code === 4902
ChainUnrecognized == 4902

\* ------------------------------------------------------------ value sets
Accounts == {"0xA", "0xB"}
AccountLists == {<<>>, <<"0xB">>, <<"0xA", "0xB">>}

\* CHAIN_PARAMS of libs/network.js (the fields the component reads).
CHAIN_PARAMS ==
    [k \in {"0x1", "0xaa36a7"} |->
        [chainId |-> k,
         chainName |-> IF k = "0x1" THEN "Ethereum Mainnet" ELSE "Sepolia Testnet"]]

\* Chain ids a provider may be on or be asked for: the registry's and one more.
ChainIds == DOMAIN CHAIN_PARAMS \cup {"0x89"}

\* Provider error codes: user rejection, unrecognized chain, internal error.
ErrorCodes == {4001, ChainUnrecognized, -32603}

\* err.message of a provider error; the internal error carries no message.
ErrMessage(code) ==
    CASE code = 4001 -> "User rejected the request."
      [] code = ChainUnrecognized -> "Unrecognized chain ID."
      [] OTHER -> ""

\* JavaScript null / undefined.
Null == "<null>"

\* JavaScript truthiness of a string-or-null and the a || b idiom.
Truthy(v) == v # Null /\ v # ""
OrElse(a, b) == IF Truthy(a) THEN a ELSE b

\* accs[0]: undefined for an empty list.
Index0(accs) == IF Len(accs) > 0 THEN accs[1] ELSE Null

\* getChainName(hexId)
getChainName(hexId) ==
    IF hexId \in DOMAIN CHAIN_PARAMS
    THEN OrElse(CHAIN_PARAMS[hexId].chainName, hexId)
    ELSE hexId

\* ------------------------------------------------------------ localStorage
KEYS == [account |-> "connectedAccount", chain |-> "connectedChain"]

setItem(s, k, v) == [x \in DOMAIN s \cup {k} |-> IF x = k THEN v ELSE s[x]]
removeItem(s, k) == [x \in DOMAIN s \ {k} |-> s[x]]
getItem(s, k) == IF k \in DOMAIN s THEN s[k] ELSE Null

\* saveSession(account, chainId): each key is written only for a truthy value.
saveSession(s, acct, cid) ==
    LET s1 == IF Truthy(acct) THEN setItem(s, KEYS.account, acct) ELSE s
    IN  IF Truthy(cid) THEN setItem(s1, KEYS.chain, cid) ELSE s1

\* loadSession()
loadSession(s) ==
    [account |-> OrElse(getItem(s, KEYS.account), ""),
     chainId |-> OrElse(getItem(s, KEYS.chain), "")]

\* A slip: only the account key is removed.
clearSession_accountOnly(s) == removeItem(s, KEYS.account)

\* clearSession()
clearSession(s) == removeItem(removeItem(s, KEYS.account), KEYS.chain)

EmptyStorage == [x \in {} |-> ""]

\* What an earlier page load may have left in localStorage.
InitStorages ==
    {EmptyStorage, saveSession(EmptyStorage, "0xA", "0xaa36a7")}

\* ------------------------------------------------------------ form inputs
\* web3.utils.isAddress(to): "0xB" stands for a well-formed address.
isAddress(s) == s \in Accounts

\* Number(amountEth) for the inputs of the model, in tenths of an ether;
\* "abc" parses to NaN.
FiniteInputs == {"", "0", "0.5"}
NumberTenths(s) == IF s = "0.5" THEN 5 ELSE 0
ValidAmount(s) == ~(s = "" \/ s \notin FiniteInputs \/ NumberTenths(s) <= 0)

\* (to, amountEth) pairs the user may type into the form.
FormInputs ==
    {<<"not-an-address", "0.5">>, <<"0xB", "0.5">>, <<"0xB", "0">>, <<"0xB", "abc">>}

\* ---------------------------------------------------------------- balance
\* Non-negative integers of any size (wei amounts, 53-bit significands) as
\* sequences of limbs in base Limb, least significant limb first.
Limb == 10000

RECURSIVE Trim(_)
Trim(a) ==
    IF a = <<>> THEN a
    ELSE IF a[Len(a)] = 0 THEN Trim(SubSeq(a, 1, Len(a) - 1)) ELSE a

RECURSIVE MulSmall(_, _, _)
\* a * m + carry, for 0 <= m <= Limb.
MulSmall(a, m, carry) ==
    IF a = <<>>
    THEN IF carry = 0 THEN <<>> ELSE <<carry>>
    ELSE LET t == Head(a) * m + carry
         IN  <<t % Limb>> \o MulSmall(Tail(a), m, t \div Limb)

RECURSIVE DivSmall(_, _)
\* Quotient and remainder of a by m, for 0 < m <= Limb.
DivSmall(a, m) ==
    IF a = <<>>
    THEN [q |-> <<>>, r |-> 0]
    ELSE LET hi == DivSmall(Tail(a), m)
             cur == hi.r * Limb + Head(a)
         IN  [q |-> <<cur \div m>> \o hi.q, r |-> cur % m]

RECURSIVE Less(_, _)
\* a < b, for trimmed a and b.
Less(a, b) ==
    IF Len(a) # Len(b) THEN Len(a) < Len(b)
    ELSE IF a = <<>> THEN FALSE
    ELSE IF a[Len(a)] # b[Len(b)] THEN a[Len(a)] < b[Len(b)]
    ELSE Less(SubSeq(a, 1, Len(a) - 1), SubSeq(b, 1, Len(b) - 1))

RECURSIVE AddOne(_)
AddOne(a) ==
    IF a = <<>> THEN <<1>>
    ELSE IF Head(a) < Limb - 1 THEN <<Head(a) + 1>> \o Tail(a)
    ELSE <<0>> \o AddOne(Tail(a))

RECURSIVE ToInt(_)
ToInt(a) == IF a = <<>> THEN 0 ELSE Head(a) + Limb * ToInt(Tail(a))

RECURSIVE ShiftLeft(_, _)
\* a * 2^k, thirteen bits at a time (2^13 < Limb).
ShiftLeft(a, k) ==
    IF k = 0 THEN a
    ELSE IF k >= 13 THEN ShiftLeft(MulSmall(a, 2^13, 0), k - 13)
    ELSE MulSmall(a, 2^k, 0)

Pow2(n) == ShiftLeft(<<1>>, n)

RECURSIVE ShiftRight(_, _)
\* floor(a / 2^k), and whether the division is exact.
ShiftRight(a, k) ==
    IF k = 0
    THEN [q |-> Trim(a), exact |-> TRUE]
    ELSE LET step == IF k >= 13 THEN 13 ELSE k
             d == DivSmall(a, 2^step)
             rest == ShiftRight(d.q, k - step)
         IN  [q |-> rest.q, exact |-> rest.exact /\ d.r = 0]

\* floor(a / 10^18), and whether the division is exact (18 = 4 * 4 + 2).
DivEther(a) ==
    LET low == SubSeq(a, 1, IF Len(a) < 4 THEN Len(a) ELSE 4)
        high == IF Len(a) <= 4 THEN <<>> ELSE SubSeq(a, 5, Len(a))
        d == DivSmall(high, 100)
    IN  [q |-> Trim(d.q), exact |-> d.r = 0 /\ Trim(low) = <<>>]

\* IEEE 754 round-to-nearest, ties to even, of a quotient x given as
\* floor(2x) and whether 2x is an integer.
RoundHalfEven(twice, exact) ==
    LET q == Trim(DivSmall(twice, 2).q)
        odd(n) == n # <<>> /\ Head(n) % 2 = 1
    IN  IF ~odd(twice) THEN q
        ELSE IF exact /\ ~odd(q) THEN q
        ELSE AddOne(q)

\* The binary64 significand has 53 bits.
SignificandBits == 53

\* Binary exponents tried when a value is normalised.
MaxExponent == 128

\* The e with 2^52 <= floor(a * 2^e / 10^18) < 2^53 (a > 0, a < 2^52 ether).
ScaleUp(a) ==
    CHOOSE e \in 0..MaxExponent :
        LET q == DivEther(ShiftLeft(a, e)).q
        IN  ~Less(q, Pow2(SignificandBits - 1)) /\ Less(q, Pow2(SignificandBits))

\* parseFloat(web3.utils.fromWei(wei, "ether")): the binary64 nearest to
\* wei / 10^18, as significand m and exponent e (the value is m / 2^e).
parseFloatEther(wei) ==
    LET e == ScaleUp(Trim(wei))
        twice == DivEther(ShiftLeft(Trim(wei), e + 1))
    IN  [m |-> RoundHalfEven(twice.q, twice.exact), e |-> e]

\* The least s with floor(b / 2^s) < 2^53.
ScaleDown(b) ==
    CHOOSE s \in 0..MaxExponent :
        /\ Less(ShiftRight(b, s).q, Pow2(SignificandBits))
        /\ s > 0 => ~Less(ShiftRight(b, s - 1).q, Pow2(SignificandBits))

\* ethValue * 1e6 in binary64: the product m * 10^6 / 2^e rounded to 53
\* bits, as significand p and exponent (the value is p * 2^s / 2^e).
timesMillion(f) ==
    LET b == MulSmall(MulSmall(f.m, 1000, 0), 1000, 0)
        s == ScaleDown(b)
        twice == ShiftRight(b, s - 1)
    IN  IF s = 0
        THEN [p |-> Trim(b), s |-> 0, e |-> f.e]
        ELSE [p |-> RoundHalfEven(twice.q, twice.exact), s |-> s, e |-> f.e]

\* Math.floor(y) for 0 <= y < 2^31.
floorOf(y) == ToInt(ShiftRight(y.p, y.e - y.s).q)

\* Raw balances in wei: 0, 1.234567 ether and 1.234567999999999999 ether.
RawBalances ==
    {<<>>,
     <<0, 0, 0, 4567, 123>>,
     <<9999, 9999, 9999, 4567, 123>>}

\* refreshBalance's arithmetic, in micro-ethers: Math.floor(ethValue * 1e6),
\* which "/ 1e6" and the rendering of the number show as a decimal with six
\* fractional digits.
roundedMicro(wei) ==
    IF Trim(wei) = <<>> THEN 0 ELSE floorOf(timesMillion(parseFloatEther(wei)))

\* The displayed balance for each raw balance of the model.
DisplayedMicro == [raw \in RawBalances |-> roundedMicro(raw)]

\* Math.floor(ethValue * 1e6) / 1e6, in micro-ethers.
FloorMicro(raw) == DisplayedMicro[raw]

VARIABLES
    \* React state of the component
    web3, account, chainId, balanceEth, to, amountEth, status, selectedChain,
    \* web3 as captured by the subscribed event handlers (effect closure), and
    \* the handler pairs subscribed to the provider's events
    hweb3, listeners,
    \* seconds the pending status timeout has run; seconds since the last setStatus call
    timer, sinceSet,
    \* localStorage
    storage,
    \* the provider: present or not, its current chain, its pushed events not yet handled
    hasProvider, provChain, events,
    \* component lifecycle: "new" before the mount effects ran, then "mounted"
    phase,
    \* connect(): the pending request and the awaited accs (its locals)
    conn_pc, conn_accs,
    \* auto-reconnect effect: the pending request and loadSession()'s result
    rec_pc, rec_saved,
    \* handleChangeNetwork / switchOrAddChain, while it runs: the pending
    \* request, hexId, the switch and add requests made so far, and the chain
    \* state at the call with what wrote to it since
    sw_pc, sw_target, sw_nSwitch, sw_nAdd, sw_snap,
    \* sendEth(), while it runs: the pending request and its tx
    send_pc, send_tx,
    \* pending web3.eth.getBalance(account) calls, per account
    fetches,
    \* remaining user calls and provider-side changes
    opsLeft, extLeft,
    \* the step taken last
    last

vars ==
    <<web3, account, chainId, balanceEth, to, amountEth, status, selectedChain,
      hweb3, listeners, timer, sinceSet, storage, hasProvider, provChain, events, phase,
      conn_pc, conn_accs, rec_pc, rec_saved,
      sw_pc, sw_target, sw_nSwitch, sw_nAdd, sw_snap, send_pc, send_tx, fetches,
      opsLeft, extLeft, last>>

reactVars ==
    <<web3, account, chainId, balanceEth, to, amountEth, selectedChain, hweb3, listeners>>
statusVars == <<status, timer, sinceSet>>
providerVars == <<hasProvider, provChain, events>>
connVars == <<conn_pc, conn_accs>>
recVars == <<rec_pc, rec_saved>>
swVars == <<sw_pc, sw_target, sw_nSwitch, sw_nAdd, sw_snap>>
sendVars == <<send_pc, send_tx>>

NoSnap ==
    [chainId |-> "", selectedChain |-> "", storedChain |-> "",
     connected |-> FALSE, chainChanged |-> FALSE, other |-> FALSE]
NoTx == [from |-> "", to |-> "", value |-> 0]

Init ==
    /\ web3 = FALSE
    /\ account = ""
    /\ chainId = ""
    /\ balanceEth = 0
    /\ to = ""
    /\ amountEth = ""
    /\ status = ""
    /\ selectedChain = "0x1"
    /\ hweb3 = FALSE
    /\ listeners = 0
    /\ timer = 0
    /\ sinceSet = 0
    /\ storage \in InitStorages
    /\ hasProvider \in BOOLEAN
    /\ provChain = "0x1"
    /\ events = <<>>
    /\ phase = "new"
    /\ conn_pc = "idle"
    /\ conn_accs = <<>>
    /\ rec_pc = "idle"
    /\ rec_saved = [account |-> "", chainId |-> ""]
    /\ sw_pc = "idle"
    /\ sw_target = ""
    /\ sw_nSwitch = 0
    /\ sw_nAdd = 0
    /\ sw_snap = NoSnap
    /\ send_pc = "idle"
    /\ send_tx = NoTx
    /\ fetches = [a \in Accounts |-> 0]
    /\ opsLeft = MaxOps
    /\ extLeft = MaxExt
    /\ last = "init"

\* ------------------------------------------------------ status and timer
\* setStatus(s) followed by the auto-clear effect, whose dependency is
\* [status]: the pending timeout is replaced only when the text changes.
setStatus(s) ==
    /\ status' = s
    /\ timer' = IF s = status THEN timer ELSE 0
    /\ sinceSet' = 0

\* A slip: the cleanup does not take the handlers off the provider.
removeListener_missing(n) == n

\* The effect's cleanup: provider.removeListener for the pair of handlers
\* that run of the effect subscribed.
removeListener(n) == IF n > 0 THEN n - 1 ELSE 0

\* The events effect's dependencies are [provider, account, chainId]: the
\* handlers are re-created, capturing the committed web3, only when account
\* or chainId changed.
Resubscribe(newAccount, newChainId, newWeb3) ==
    IF newAccount # account \/ newChainId # chainId
    THEN /\ hweb3' = newWeb3
         /\ listeners' = removeListener(listeners) + 1
    ELSE UNCHANGED <<hweb3, listeners>>

\* While a network switch is pending, note that another transition (a
\* chainChanged event, or any other one) wrote chain or session state.
Interfere(kind) ==
    sw_snap' = IF sw_pc # "idle" THEN [sw_snap EXCEPT ![kind] = TRUE] ELSE sw_snap

\* ------------------------------------------------------------------ mount
\* The request the auto-reconnect effect makes.
ReconnectMethod == "eth_accounts"

\* First commit: the effects run.  The auto-reconnect effect reads the
\* persisted session and, with a provider and a saved account, queries the
\* provider; the events effect subscribes the handlers.
Mount ==
    /\ phase = "new"
    /\ phase' = "mounted"
    /\ rec_saved' = loadSession(storage)
    /\ rec_pc' = IF hasProvider /\ Truthy(loadSession(storage).account)
                 THEN ReconnectMethod ELSE "done"
    /\ listeners' = IF hasProvider THEN 1 ELSE 0
    /\ last' = "mount"
    /\ UNCHANGED <<web3, account, chainId, balanceEth, to, amountEth, selectedChain,
                   hweb3, statusVars, storage, providerVars, connVars,
                   swVars, sendVars, fetches, opsLeft, extLeft>>

\* The component is unmounted (here: while no request is pending): the
\* events effect's cleanup runs.
Unmount ==
    /\ phase = "mounted"
    /\ conn_pc = "idle"
    /\ rec_pc = "done"
    /\ sw_pc = "idle"
    /\ send_pc = "idle"
    /\ \A a \in Accounts : fetches[a] = 0
    /\ phase' = "unmounted"
    /\ listeners' = removeListener(listeners)
    /\ last' = "unmount"
    /\ UNCHANGED <<web3, account, chainId, balanceEth, to, amountEth, selectedChain,
                   hweb3, statusVars, storage, providerVars, connVars, recVars,
                   swVars, sendVars, fetches, opsLeft, extLeft>>

\* accounts.includes(savedAccount)
includes(accounts, x) == \E i \in 1..Len(accounts) : accounts[i] = x

\* The provider answers the auto-reconnect query with a list of accounts.
ReconnectResolve(accounts) ==
    /\ rec_pc \notin {"idle", "done"}
    /\ rec_pc' = "done"
    /\ IF includes(accounts, rec_saved.account)
       THEN /\ account' = rec_saved.account
            /\ chainId' = OrElse(rec_saved.chainId, "")
            /\ selectedChain' = OrElse(rec_saved.chainId, "0x1")
            /\ web3' = TRUE
            /\ Resubscribe(rec_saved.account, OrElse(rec_saved.chainId, ""), TRUE)
            /\ last' = "reconnect:adopt"
            /\ UNCHANGED storage
       ELSE /\ storage' = clearSession(storage)
            /\ last' = "reconnect:clear"
            /\ UNCHANGED <<web3, account, chainId, selectedChain, hweb3, listeners>>
    /\ Interfere("other")
    /\ UNCHANGED <<balanceEth, to, amountEth, statusVars, providerVars, phase,
                   connVars, rec_saved, sw_pc, sw_target, sw_nSwitch, sw_nAdd,
                   sendVars, fetches, opsLeft, extLeft>>

\* The provider rejects the query: the promise has no rejection handler.
ReconnectReject ==
    /\ rec_pc \notin {"idle", "done"}
    /\ rec_pc' = "done"
    /\ last' = "reconnect:rejected"
    /\ UNCHANGED <<reactVars, statusVars, storage, providerVars, phase, connVars,
                   rec_saved, swVars, sendVars, fetches, opsLeft, extLeft>>

\* ---------------------------------------------------------------- connect
\* A slip: the last returned address is taken.
firstOf_lastElement(accs) == IF Len(accs) > 0 THEN accs[Len(accs)] ELSE ""

\* const first = accs[0] || ""
firstOf(accs) == OrElse(Index0(accs), "")

\* {!account ? <button onClick={connect}> : <> the wallet card </>}
connectRendered == ~Truthy(account)
cardRendered == Truthy(account)

\* connect(), up to its first await.
Connect ==
    /\ phase = "mounted"
    /\ connectRendered
    /\ conn_pc = "idle"
    /\ opsLeft > 0
    /\ opsLeft' = opsLeft - 1
    /\ IF ~hasProvider
       THEN /\ setStatus("MetaMask not found. Please install it.")
            /\ last' = "connect:noProvider"
            /\ UNCHANGED conn_pc
       ELSE /\ conn_pc' = "eth_requestAccounts"
            /\ last' = "connect:call"
            /\ UNCHANGED statusVars
    /\ UNCHANGED <<reactVars, storage, providerVars, phase, conn_accs,
                   recVars, swVars, sendVars, fetches, extLeft>>

\* eth_requestAccounts resolves with accs; connect() asks for the chain id.
ConnectAccountsResolve(accs) ==
    /\ conn_pc = "eth_requestAccounts"
    /\ conn_pc' = "eth_chainId"
    /\ conn_accs' = accs
    /\ last' = "connect:accounts"
    /\ UNCHANGED <<reactVars, statusVars, storage, providerVars, phase,
                   recVars, swVars, sendVars, fetches, opsLeft, extLeft>>

\* Either request rejects: catch (err) { setStatus(err?.message || "Connect failed") }
ConnectReject(code) ==
    /\ conn_pc \in {"eth_requestAccounts", "eth_chainId"}
    /\ conn_pc' = "idle"
    /\ conn_accs' = <<>>
    /\ setStatus(OrElse(ErrMessage(code), "Connect failed"))
    /\ last' = "connect:rejected"
    /\ UNCHANGED <<reactVars, storage, providerVars, phase,
                   recVars, swVars, sendVars, fetches, opsLeft, extLeft>>

\* eth_chainId resolves with the provider's chain: the rest of the try block.
ConnectChainIdResolve ==
    /\ conn_pc = "eth_chainId"
    /\ conn_pc' = "idle"
    /\ conn_accs' = <<>>
    /\ account' = firstOf(conn_accs)
    /\ chainId' = provChain
    /\ selectedChain' = provChain
    /\ web3' = TRUE
    /\ Resubscribe(firstOf(conn_accs), provChain, TRUE)
    /\ storage' = saveSession(storage, firstOf(conn_accs), provChain)
    /\ setStatus("Connected")
    /\ Interfere("other")
    /\ last' = "connect:ok"
    /\ UNCHANGED <<balanceEth, to, amountEth, providerVars, phase,
                   recVars, sw_pc, sw_target, sw_nSwitch, sw_nAdd, sendVars,
                   fetches, opsLeft, extLeft>>

\* -------------------------------------------------------- provider events
AccountsChangedEvent(accs) == [type |-> "accountsChanged", accs |-> accs, cid |-> ""]
ChainChangedEvent(cid) == [type |-> "chainChanged", accs |-> <<>>, cid |-> cid]

\* The user changes the authorized accounts in the wallet: the provider
\* pushes accountsChanged.
ExtAccountsChanged(accs) ==
    /\ phase # "new"
    /\ hasProvider
    /\ extLeft > 0
    /\ extLeft' = extLeft - 1
    /\ events' = Append(events, AccountsChangedEvent(accs))
    /\ last' = "ext:accounts"
    /\ UNCHANGED <<reactVars, statusVars, storage, hasProvider, provChain, phase,
                   connVars, recVars, swVars, sendVars, fetches, opsLeft>>

\* The user changes the network in the wallet: the provider pushes chainChanged.
ExtChainChanged(cid) ==
    /\ phase # "new"
    /\ hasProvider
    /\ extLeft > 0
    /\ cid # provChain
    /\ extLeft' = extLeft - 1
    /\ provChain' = cid
    /\ events' = Append(events, ChainChangedEvent(cid))
    /\ last' = "ext:chain"
    /\ UNCHANGED <<reactVars, statusVars, storage, hasProvider, phase,
                   connVars, recVars, swVars, sendVars, fetches, opsLeft>>

\* onAccountsChanged(accs); its closure holds the committed chainId.
OnAccountsChanged ==
    /\ listeners > 0
    /\ events # <<>>
    /\ Head(events).type = "accountsChanged"
    /\ events' = Tail(events)
    /\ LET first == firstOf(Head(events).accs)
       IN  /\ account' = first
           /\ IF ~Truthy(first)
              THEN /\ storage' = clearSession(storage)
                   /\ setStatus("Disconnected")
                   /\ balanceEth' = 0
                   /\ last' = "accountsChanged:empty"
              ELSE /\ storage' = saveSession(storage, first, chainId)
                   /\ setStatus("Account changed")
                   /\ last' = "accountsChanged:first"
                   /\ UNCHANGED balanceEth
    /\ Resubscribe(firstOf(Head(events).accs), chainId, web3)
    /\ Interfere("other")
    /\ UNCHANGED <<web3, chainId, to, amountEth, selectedChain, hasProvider,
                   provChain, phase, connVars, recVars, sw_pc, sw_target,
                   sw_nSwitch, sw_nAdd, sendVars, fetches, opsLeft, extLeft>>

\* refreshBalance() up to its await, with the web3 and account of the closure
\* it is called from: the pending getBalance calls afterwards.
refreshBalance(w3, acct) ==
    IF ~w3 \/ ~Truthy(acct)
    THEN fetches
    ELSE [fetches EXCEPT ![acct] = @ + 1]

\* onChainChanged(cid); its closure holds the committed account and the web3
\* of the render that subscribed it.
OnChainChanged ==
    /\ listeners > 0
    /\ events # <<>>
    /\ Head(events).type = "chainChanged"
    /\ events' = Tail(events)
    /\ chainId' = Head(events).cid
    /\ selectedChain' = Head(events).cid
    /\ storage' = saveSession(storage, account, Head(events).cid)
    /\ setStatus("Network changed")
    /\ fetches' = refreshBalance(hweb3, account)
    /\ Resubscribe(account, Head(events).cid, web3)
    /\ Interfere("chainChanged")
    /\ last' = "chainChanged"
    /\ UNCHANGED <<web3, account, balanceEth, to, amountEth, hasProvider,
                   provChain, phase, connVars, recVars, sw_pc, sw_target,
                   sw_nSwitch, sw_nAdd, sendVars, opsLeft, extLeft>>

\* ---------------------------------------------------------------- balance
\* The Refresh button.
RefreshBalance ==
    /\ phase = "mounted"
    /\ cardRendered
    /\ opsLeft > 0
    /\ opsLeft' = opsLeft - 1
    /\ fetches' = refreshBalance(web3, account)
    /\ last' = "refresh:call"
    /\ UNCHANGED <<reactVars, statusVars, storage, providerVars, phase, connVars,
                   recVars, swVars, sendVars, extLeft>>

\* getBalance(acct) resolves: setBalanceEth(rounded).
BalanceResolve(acct, raw) ==
    /\ fetches[acct] > 0
    /\ fetches' = [fetches EXCEPT ![acct] = @ - 1]
    /\ balanceEth' = FloorMicro(raw)
    /\ last' = "refresh:ok"
    /\ UNCHANGED <<web3, account, chainId, to, amountEth, selectedChain, hweb3, listeners,
                   statusVars, storage, providerVars, phase, connVars, recVars,
                   swVars, sendVars, opsLeft, extLeft>>

\* getBalance(acct) rejects.
BalanceReject(acct) ==
    /\ fetches[acct] > 0
    /\ fetches' = [fetches EXCEPT ![acct] = @ - 1]
    /\ setStatus("Failed to fetch balance")
    /\ last' = "refresh:rejected"
    /\ UNCHANGED <<reactVars, storage, providerVars, phase, connVars, recVars,
                   swVars, sendVars, opsLeft, extLeft>>

\* --------------------------------------------------------- network switch
\* A slip: the registry is not consulted.
addThenRetry_noRegistryCheck(code, hexChainId) == code = ChainUnrecognized

\* err?.code === 4902 && CHAIN_PARAMS[hexChainId]
addThenRetry(code, hexChainId) ==
    code = ChainUnrecognized /\ hexChainId \in DOMAIN CHAIN_PARAMS

\* A slip: the retried switch is handled like the first one.
afterReject_anyPosition(pc, code, hexChainId) ==
    IF addThenRetry(code, hexChainId) THEN "add" ELSE "idle"

\* switchOrAddChain's catch block: the request made after the request at
\* position pc was rejected with code; "idle" when the error is thrown on.
afterReject(pc, code, hexChainId) ==
    IF pc = "switch" /\ addThenRetry(code, hexChainId) THEN "add" ELSE "idle"

\* handleChangeNetwork(e), up to its await, with hexId = e.target.value (any
\* id the change event carries).
HandleChangeNetwork(hexId) ==
    /\ phase = "mounted"
    /\ cardRendered
    /\ sw_pc = "idle"
    /\ opsLeft > 0
    /\ opsLeft' = opsLeft - 1
    /\ IF ~hasProvider
       THEN /\ setStatus("MetaMask not found")
            /\ last' = "switch:noProvider"
            /\ UNCHANGED swVars
       ELSE /\ setStatus("Switching network...")
            /\ sw_pc' = "switch"
            /\ sw_target' = hexId
            /\ sw_nSwitch' = 1
            /\ sw_nAdd' = 0
            /\ sw_snap' = [chainId |-> chainId, selectedChain |-> selectedChain,
                           storedChain |-> getItem(storage, KEYS.chain),
                           connected |-> web3 /\ Truthy(account),
                           chainChanged |-> FALSE, other |-> FALSE]
            /\ last' = "switch:call"
    /\ UNCHANGED <<reactVars, storage, providerVars, phase, connVars, recVars,
                   sendVars, fetches, extLeft>>

\* The run is over: its locals are gone.
switchReturn ==
    /\ sw_pc' = "idle"
    /\ sw_target' = ""
    /\ sw_nSwitch' = 0
    /\ sw_nAdd' = 0
    /\ sw_snap' = NoSnap

\* handleChangeNetwork after switchOrAddChain returned.
switchSucceeded(hexId) ==
    /\ selectedChain' = hexId
    /\ setStatus("Switched to " \o getChainName(hexId))
    /\ UNCHANGED <<web3, account, chainId, balanceEth, to, amountEth, hweb3,
                   listeners, storage>>

\* A slip: the selection follows the requested chain although the switch failed.
switchFailed_selectsTarget(code) ==
    /\ setStatus(OrElse(ErrMessage(code), "Failed to switch network"))
    /\ selectedChain' = sw_target
    /\ UNCHANGED <<web3, account, chainId, balanceEth, to, amountEth, hweb3,
                   listeners, storage>>

\* handleChangeNetwork's catch block.
switchFailed(code) ==
    /\ setStatus(OrElse(ErrMessage(code), "Failed to switch network"))
    /\ UNCHANGED <<reactVars, storage>>

\* The provider grants wallet_switchEthereumChain (first or retried): it is
\* on the target chain and announces the change if there was one; its
\* response is on its way to switchOrAddChain.
SwitchGranted ==
    /\ sw_pc \in {"switch", "retry"}
    /\ sw_pc' = sw_pc \o ":granted"
    /\ provChain' = sw_target
    /\ events' = IF sw_target # provChain
                 THEN Append(events, ChainChangedEvent(sw_target))
                 ELSE events
    /\ last' = "switch:granted"
    /\ UNCHANGED <<reactVars, statusVars, storage, hasProvider, phase, connVars,
                   recVars, sw_target, sw_nSwitch, sw_nAdd, sw_snap, sendVars,
                   fetches, opsLeft, extLeft>>

\* The granted request resolves in switchOrAddChain, which returns.
SwitchResolve ==
    /\ sw_pc \in {"switch:granted", "retry:granted"}
    /\ switchSucceeded(sw_target)
    /\ switchReturn
    /\ last' = IF sw_pc = "switch:granted" THEN "switch:ok:switch" ELSE "switch:ok:retry"
    /\ UNCHANGED <<providerVars, phase, connVars, recVars, sendVars, fetches,
                   opsLeft, extLeft>>

\* wallet_switchEthereumChain (first or retried) rejects.
SwitchReject(code) ==
    /\ sw_pc \in {"switch", "retry"}
    /\ IF afterReject(sw_pc, code, sw_target) = "idle"
       THEN /\ switchFailed(code)
            /\ switchReturn
            /\ last' = "switch:failed:" \o sw_pc
       ELSE /\ sw_pc' = afterReject(sw_pc, code, sw_target)
            /\ sw_nAdd' = sw_nAdd + 1
            /\ last' = "switch:adding"
            /\ UNCHANGED <<reactVars, statusVars, storage, sw_target, sw_nSwitch, sw_snap>>
    /\ UNCHANGED <<providerVars, phase, connVars, recVars, sendVars, fetches,
                   opsLeft, extLeft>>

\* wallet_addEthereumChain resolves: the switch is retried.
AddResolve ==
    /\ sw_pc = "add"
    /\ sw_pc' = "retry"
    /\ sw_nSwitch' = sw_nSwitch + 1
    /\ last' = "switch:added"
    /\ UNCHANGED <<reactVars, statusVars, storage, providerVars, phase, connVars,
                   recVars, sw_target, sw_nAdd, sw_snap, sendVars, fetches,
                   opsLeft, extLeft>>

\* wallet_addEthereumChain rejects: the error is thrown on.
AddReject(code) ==
    /\ sw_pc = "add"
    /\ switchFailed(code)
    /\ switchReturn
    /\ last' = "switch:failed:add"
    /\ UNCHANGED <<providerVars, phase, connVars, recVars, sendVars, fetches,
                   opsLeft, extLeft>>

\* ------------------------------------------------------------------- send
\* The user edits the form (or presses Clear): setTo, setAmountEth.
EditForm(t, a) ==
    /\ phase = "mounted"
    /\ cardRendered
    /\ <<t, a>> # <<to, amountEth>>
    /\ to' = t
    /\ amountEth' = a
    /\ last' = "form:edit"
    /\ UNCHANGED <<web3, account, chainId, balanceEth, selectedChain, hweb3, listeners,
                   statusVars, storage, providerVars, phase, connVars, recVars,
                   swVars, sendVars, fetches, opsLeft, extLeft>>

\* sendEth(e), up to its await.
SendEth ==
    /\ phase = "mounted"
    /\ cardRendered
    /\ send_pc = "idle"
    /\ opsLeft > 0
    /\ opsLeft' = opsLeft - 1
    /\ IF ~web3 \/ ~Truthy(account)
       THEN /\ setStatus("Connect wallet first")
            /\ last' = "send:notConnected"
            /\ UNCHANGED sendVars
       ELSE IF ~isAddress(to)
       THEN /\ setStatus("Invalid recipient address")
            /\ last' = "send:invalidAddress"
            /\ UNCHANGED sendVars
       ELSE IF ~ValidAmount(amountEth)
       THEN /\ setStatus("Enter a valid amount")
            /\ last' = "send:invalidAmount"
            /\ UNCHANGED sendVars
       ELSE /\ setStatus("Sending...")
            /\ send_pc' = "eth_sendTransaction"
            /\ send_tx' = [from |-> account, to |-> to, value |-> NumberTenths(amountEth)]
            /\ last' = "send:call"
    /\ UNCHANGED <<reactVars, storage, providerVars, phase, connVars, recVars,
                   swVars, fetches, extLeft>>

\* sendTransaction resolves with a receipt whose transactionHash is hash.
SendResolve(hash) ==
    /\ send_pc = "eth_sendTransaction"
    /\ send_pc' = "idle"
    /\ setStatus("Sent! Tx: " \o OrElse(hash, "(pending)"))
    /\ to' = ""
    /\ amountEth' = ""
    /\ fetches' = refreshBalance(TRUE, send_tx.from)
    /\ send_tx' = NoTx
    /\ last' = "send:ok"
    /\ UNCHANGED <<web3, account, chainId, balanceEth, selectedChain, hweb3, listeners,
                   storage, providerVars, phase, connVars, recVars, swVars,
                   opsLeft, extLeft>>

\* sendTransaction rejects.
SendReject(code) ==
    /\ send_pc = "eth_sendTransaction"
    /\ send_pc' = "idle"
    /\ setStatus(OrElse(ErrMessage(code), "Send failed"))
    /\ send_tx' = NoTx
    /\ last' = "send:failed"
    /\ UNCHANGED <<reactVars, storage, providerVars, phase, connVars, recVars,
                   swVars, fetches, opsLeft, extLeft>>

\* ------------------------------------------------------------------ timer
\* One second passes while a status timeout is pending.
Tick ==
    /\ status # ""
    /\ timer < StatusTimeoutSec
    /\ timer' = timer + 1
    /\ sinceSet' = sinceSet + 1
    /\ last' = "tick"
    /\ UNCHANGED <<reactVars, status, storage, providerVars, phase, connVars,
                   recVars, swVars, sendVars, fetches, opsLeft, extLeft>>

\* The timeout fires: setStatus("").
TimerFire ==
    /\ status # ""
    /\ timer = StatusTimeoutSec
    /\ setStatus("")
    /\ last' = "timer:fire"
    /\ UNCHANGED <<reactVars, storage, providerVars, phase, connVars, recVars,
                   swVars, sendVars, fetches, opsLeft, extLeft>>

\* ------------------------------------------------------------------- spec
\* The provider answers the pending request of a switchOrAddChain run.
SwitchAnswered ==
    \/ SwitchGranted
    \/ SwitchResolve
    \/ \E code \in ErrorCodes : SwitchReject(code)
    \/ AddResolve
    \/ \E code \in ErrorCodes \ {ChainUnrecognized} : AddReject(code)

\* Mount, auto-reconnect, connect and the provider's pushed events.
NextSession ==
    \/ Mount
    \/ \E accounts \in AccountLists : ReconnectResolve(accounts)
    \/ ReconnectReject
    \/ Connect
    \/ \E accs \in AccountLists : ConnectAccountsResolve(accs)
    \/ \E code \in ErrorCodes \ {ChainUnrecognized} : ConnectReject(code)
    \/ ConnectChainIdResolve
    \/ \E accs \in AccountLists : ExtAccountsChanged(accs)
    \/ \E cid \in ChainIds : ExtChainChanged(cid)
    \/ OnAccountsChanged
    \/ OnChainChanged

NextSwitch ==
    \/ \E hexId \in ChainIds : HandleChangeNetwork(hexId)
    \/ SwitchGranted
    \/ SwitchResolve
    \/ \E code \in ErrorCodes : SwitchReject(code)
    \/ AddResolve
    \/ \E code \in ErrorCodes \ {ChainUnrecognized} : AddReject(code)

NextBalance ==
    \/ RefreshBalance
    \/ \E acct \in Accounts, raw \in RawBalances : BalanceResolve(acct, raw)
    \/ \E acct \in Accounts : BalanceReject(acct)

NextSend ==
    \/ \E f \in FormInputs : EditForm(f[1], f[2])
    \/ SendEth
    \/ \E hash \in {"0xhash", Null} : SendResolve(hash)
    \/ \E code \in ErrorCodes \ {ChainUnrecognized} : SendReject(code)

NextTimer ==
    \/ Tick
    \/ TimerFire

\* The session machine: session, network switch and balance steps.
Next == NextSession \/ NextSwitch \/ NextBalance

Spec == Init /\ [][Next]_vars

\* The same, with every pending request of a network switch eventually answered.
SpecLive == Init /\ [][Next]_vars /\ WF_vars(SwitchAnswered)

\* The session machine with the send form.
NextWithSend == NextSession \/ NextSend \/ NextBalance

SpecSend == Init /\ [][NextWithSend]_vars

\* The session machine with the send form and the network switch.
NextSendSwitch == NextSession \/ NextSwitch \/ NextSend

SpecSendSwitch == Init /\ [][NextSendSwitch]_vars

\* The session machine with the component's teardown.
NextTeardown == NextSession \/ NextBalance \/ Unmount

SpecTeardown == Init /\ [][NextTeardown]_vars

\* The session machine with time passing.
NextTimed == NextSession \/ NextTimer

SpecTimed == Init /\ [][NextTimed]_vars

\* ----------------------------------------------------------------- claims
\* PersistedSession: the two keys of localStorage, Null when absent.
Persisted(s) ==
    [account |-> getItem(s, KEYS.account), chainId |-> getItem(s, KEYS.chain)]

\* The machine is Connected: a provider handle and an account are held.
Connected == web3 /\ Truthy(account)

\* C1: when connect() gets a non-empty account list accs and then chain id c
\* from the provider, it ends with account = accs[0], chainId = c, status
\* "Connected", a provider handle, and PersistedSession = {accs[0], c}.
C1_ConnectAdoptsFirstAccount ==
    [][(ConnectChainIdResolve /\ conn_accs # <<>>) =>
        /\ account' = conn_accs[1]
        /\ chainId' = provChain
        /\ web3'
        /\ status' = "Connected"
        /\ Persisted(storage') = [account |-> conn_accs[1], chainId |-> provChain]
        /\ conn_pc' = "idle"]_vars

\* connect() has just completed with the two-account list: its first account
\* is the session's and the persisted one.
C1_Witness ==
    /\ last = "connect:ok"
    /\ account = "0xA"
    /\ status = "Connected"
    /\ Persisted(storage).account = "0xA"

\* C2: when the provider grants access with an empty account list, connect()
\* fails: the machine is not Connected afterwards, the status "Connected" is
\* not emitted, and PersistedSession is not written.
C2_EmptyListFails ==
    [][(ConnectChainIdResolve /\ conn_accs = <<>>) =>
        /\ ~(web3' /\ Truthy(account'))
        /\ status' # "Connected"
        /\ storage' = storage]_vars

\* C3: the auto-reconnect effect never makes the prompting request
\* eth_requestAccounts; when its query for the already-authorized accounts
\* is answered, it adopts the persisted account only if the answer contains
\* it, and otherwise clears PersistedSession and leaves the machine
\* Disconnected with an empty account.
C3_AutoReconnectRevalidates ==
    /\ [](rec_pc # "eth_requestAccounts")
    /\ [][\A accounts \in AccountLists :
            ReconnectResolve(accounts) =>
                IF \E i \in DOMAIN accounts : accounts[i] = rec_saved.account
                THEN /\ account' = rec_saved.account
                     /\ web3'
                ELSE /\ Persisted(storage') = [account |-> Null, chainId |-> Null]
                     /\ account' = ""
                     /\ ~(web3' /\ Truthy(account'))]_vars

\* C4: handling accountsChanged with an empty list, in whatever state, leaves
\* the status "Disconnected", the account empty (the machine not Connected),
\* both keys of PersistedSession removed and the cached balance zero.
C4_EmptyAccountsDisconnects ==
    [][(OnAccountsChanged /\ Head(events).accs = <<>>) =>
        /\ status' = "Disconnected"
        /\ account' = ""
        /\ ~(web3' /\ Truthy(account'))
        /\ Persisted(storage') = [account |-> Null, chainId |-> Null]
        /\ balanceEth' = 0]_vars

\* The empty list was handled in a Connected session with a network switch
\* pending.
C4_Witness ==
    /\ last = "accountsChanged:empty"
    /\ web3
    /\ sw_pc # "idle"
    /\ status = "Disconnected"

\* The status a failed network switch shows for the provider's error.
SwitchFailureReason(code) ==
    IF ErrMessage(code) # "" THEN ErrMessage(code) ELSE "Failed to switch network"

\* C5 (as amended): when the target is absent from the Chain Registry and the
\* provider answers the switch request with "chain unrecognized", the run
\* fails with that error after that single switch request: no add request
\* and no retried switch are made.
C5_UnregisteredTargetFailsAtOnce ==
    [][(SwitchReject(ChainUnrecognized) /\ sw_pc = "switch"
            /\ sw_target \notin DOMAIN CHAIN_PARAMS) =>
        /\ sw_pc' = "idle"
        /\ sw_nSwitch = 1
        /\ sw_nAdd = 0
        /\ status' = ErrMessage(ChainUnrecognized)
        /\ selectedChain' = selectedChain]_vars

\* A run failed on the answer to its first switch request, which was
\* "chain unrecognized": its target is not in the registry.
C5_Witness ==
    /\ last = "switch:failed:switch"
    /\ status = "Unrecognized chain ID."
    /\ sw_pc = "idle"

\* C5 as stated: such a run fails after exactly one add request followed by
\* one retried switch request.
C5_Original ==
    [][(SwitchReject(ChainUnrecognized) /\ sw_pc # "idle" /\ sw_pc' = "idle"
            /\ sw_target \notin DOMAIN CHAIN_PARAMS) =>
        (sw_nAdd = 1 /\ sw_nSwitch = 2)]_vars

\* C6: a run makes at most two switch requests and at most one add request;
\* the add request is made only when the first switch was rejected with 4902
\* and the registry has the target; a successful add is followed by exactly
\* one retried switch; every other rejection (another error on the first
\* switch, a rejected add, a rejected retry) ends the run with the provider's
\* error and no further request.
C6_BoundedAddAndRetry ==
    /\ [](sw_nSwitch <= 2 /\ sw_nAdd <= 1)
    /\ [][sw_nAdd' > sw_nAdd =>
            /\ sw_pc = "switch"
            /\ SwitchReject(ChainUnrecognized)
            /\ sw_target \in DOMAIN CHAIN_PARAMS
            /\ sw_pc' = "add"]_vars
    /\ [][sw_nSwitch' > sw_nSwitch =>
            \/ AddResolve /\ sw_pc' = "retry" /\ sw_nSwitch' = 2
            \/ sw_pc = "idle" /\ sw_pc' = "switch" /\ sw_nSwitch' = 1]_vars
    /\ [][AddResolve => sw_pc' = "retry" /\ sw_nSwitch' = sw_nSwitch + 1]_vars
    /\ [][\A code \in ErrorCodes :
            (\/ SwitchReject(code) /\ sw_pc = "retry"
             \/ SwitchReject(code) /\ code # ChainUnrecognized
             \/ SwitchReject(code) /\ sw_target \notin DOMAIN CHAIN_PARAMS
             \/ AddReject(code)) =>
                /\ sw_pc' = "idle"
                /\ status' = SwitchFailureReason(code)]_vars

\* A run succeeded on its retried switch, after the add request.
C6_Witness ==
    /\ last = "switch:ok:retry"
    /\ sw_pc = "idle"
    /\ status = "Switched to Sepolia Testnet"

\* C7: when switchNetwork(target) succeeds in a Connected session, the
\* machine is Connected with chainId = target, PersistedSession.chainId =
\* target and status "Switched to <name of target>", by the operation itself.
C7_SwitchAdoptsTarget ==
    [][(SwitchResolve /\ Connected) =>
        /\ web3' /\ Truthy(account')
        /\ chainId' = sw_target
        /\ Persisted(storage').chainId = sw_target
        /\ status' = "Switched to " \o getChainName(sw_target)]_vars

C9_ClearedSevenSecondsAfterLastSet ==
    [][TimerFire => sinceSet = StatusTimeoutSec]_vars

\* Recipient strings that are not addresses.
Malformed == {"", "not-an-address"}

\* C10: for a malformed recipient, in every state, send fails with the
\* invalid-address error before any provider call: no submission is made and
\* account, chainId, balance, PersistedSession and the form fields are
\* unchanged (only the status changes).
C10_MalformedRecipientRejected ==
    [][(SendEth /\ to \in Malformed) =>
        /\ status' = "Invalid recipient address"
        /\ send_pc' = "idle"
        /\ UNCHANGED <<account, chainId, web3, balanceEth, storage, to, amountEth,
                       fetches, conn_pc, sw_pc, rec_pc>>]_vars

\* The status of the session machine.  With a handle and an account the
\* session is usable (sendEth's test): Switching while a network switch
\* runs, else Connected.  Without: Connecting while connect() runs, else
\* Disconnected.
MachineStatus ==
    IF Connected
    THEN IF sw_pc # "idle" THEN "Switching" ELSE "Connected"
    ELSE IF conn_pc # "idle" THEN "Connecting" ELSE "Disconnected"

\* C11: send submits a transfer to the provider only when the machine is
\* Connected: a send in Disconnected, Connecting or Switching (a network
\* switch in flight) makes no submission.
C11_SendOnlyWhenConnected ==
    [][(SendEth /\ MachineStatus # "Connected") => send_pc' = "idle"]_vars

\* floor(v / 10^12): the raw balance v truncated to whole micro-ethers.
TruncatedMicro(raw) ==
    LET v == Trim(raw) IN ToInt(IF Len(v) <= 3 THEN <<>> ELSE SubSeq(v, 4, Len(v)))

\* C12: for every raw balance v, the balance refreshBalance displays is v
\* truncated toward zero to six fractional digits, floor(v / 10^12) / 10^6,
\* and so never exceeds the true value of v.
C12_BalanceTruncatedDown ==
    [][\A acct \in Accounts, raw \in RawBalances :
        BalanceResolve(acct, raw) =>
            /\ balanceEth' <= TruncatedMicro(raw)
            /\ balanceEth' = TruncatedMicro(raw)]_vars

\* C13: in every reachable state the account is non-empty if and only if
\* the machine is Connected or Switching.
C13_AccountIffConnected ==
    Truthy(account) <=> MachineStatus \in {"Connected", "Switching"}

\* C14: handling chainChanged(c) in any state adopts c as chainId, leaves
\* the account unchanged, sets the status "Network changed" and leaves
\* PersistedSession equal to {account: the current account, chainId: c}.
C14_ChainChangedAdoptsAndPersists ==
    [][OnChainChanged =>
        /\ chainId' = Head(events).cid
        /\ account' = account
        /\ status' = "Network changed"
        /\ loadSession(storage') = [account |-> account, chainId |-> Head(events).cid]]_vars

\* C15: a balance response that arrives after the account changed or the
\* machine became Disconnected since the fetch was issued is discarded: it
\* does not change the displayed balance.
C15_StaleBalanceDiscarded ==
    [][\A acct \in Accounts, raw \in RawBalances :
        (BalanceResolve(acct, raw) /\ (acct # account \/ ~Connected)) =>
            balanceEth' = balanceEth]_vars

\* A provider request of an operation failed and ended the operation.
ProviderRequestFailed ==
    \/ ReconnectReject
    \/ \E code \in ErrorCodes : ConnectReject(code)
    \/ \E code \in ErrorCodes : SwitchReject(code) /\ sw_pc' = "idle"
    \/ \E code \in ErrorCodes : AddReject(code)
    \/ \E acct \in Accounts : BalanceReject(acct)

\* C16: every failure of a provider request made by an operation (connect,
\* the auto-reconnect query, network switch, balance refresh) produces a
\* status message.
C16_FailuresProduceStatus ==
    [][ProviderRequestFailed => status' # ""]_vars

\* C17: the handlers the events effect subscribes are unsubscribed by each
\* re-subscription and by teardown: at most one pair of handlers is
\* subscribed at any moment (exactly one while mounted with a provider),
\* none after teardown, and after teardown no provider event is handled or
\* changes the session.
C17_HandlersUnsubscribed ==
    /\ [](listeners <= 1)
    /\ []((phase = "mounted" /\ hasProvider) => listeners = 1)
    /\ [](phase = "unmounted" => listeners = 0)
    /\ [][phase = "unmounted" =>
            /\ ~OnAccountsChanged
            /\ ~OnChainChanged
            /\ UNCHANGED <<web3, account, chainId, selectedChain, balanceEth,
                           status, storage>>]_vars

\* After a session that re-subscribed its handlers was torn down, the
\* provider pushed an event, which stays unhandled.
C17_Witness ==
    /\ phase = "unmounted"
    /\ Connected
    /\ hweb3
    /\ events # <<>>
    /\ listeners = 0

\* No provider request and no pushed event is outstanding.
Quiescent ==
    /\ conn_pc = "idle"
    /\ rec_pc \in {"idle", "done"}
    /\ sw_pc = "idle"
    /\ events = <<>>

\* C18: whenever the machine is Connected and no provider request or pushed
\* event is outstanding, chainId is the chain the provider is on.
C18_ChainIdIsProvidersChain ==
    (Connected /\ Quiescent) => chainId = provChain

\* C19: whenever the machine is Connected with a non-empty chainId and no
\* network switch and no chainChanged event is outstanding, the network
\* selection equals chainId.
C19_SelectionIsChainId ==
    (/\ Connected
     /\ Truthy(chainId)
     /\ sw_pc = "idle"
     /\ \A i \in DOMAIN events : events[i].type # "chainChanged")
        => selectedChain = chainId

\* C20: PersistedSession holds a chainId only if it also holds an account.
C20_PersistedChainOnlyWithAccount ==
    Persisted(storage).chainId # Null => Persisted(storage).account # Null

====
